---- MODULE Spec2Model ----
(***************************************************************************)
(* Model of the loan eligibility checker: the scoring engine               *)
(* (loan_model.py), the Streamlit flow that drives it (app.py) and the     *)
(* advice service it consults (gemini_service.py).                         *)
(*                                                                         *)
(* Numbers.  Python floats are modelled as fixed-point integers: a real x  *)
(* is the integer floor(x * Unit).  Unit is a multiple of every divisor    *)
(* the engine applies to an integer input (200, 20, 6, 12, 180, 240, 360), *)
(* so the branch conditions and the weights of integer inputs are exact;   *)
(* only quotients of two inputs and the compound-interest power are        *)
(* rounded down to the resolution.  Money is counted in lakhs (the step    *)
(* of the form's money fields), rates in percent.  Sums of float literals  *)
(* are exact here: 0.2 + 0.1 is 0.3, where Python has 0.30000000000000004. *)
(***************************************************************************)
EXTENDS Integers, Sequences, FiniteSets, TLC

\* resolution of a fixed-point number: 1.0 is Unit
Unit == 36 * (10 ^ 5)

\* resolution of the compound-interest power (1 + monthly_rate) ** n
PowUnit == 10 ^ 7

Max(a, b) == IF a >= b THEN a ELSE b

\* quotient and remainder of a * b by c, for a, b >= 0 and c > 0, one bit of
\* b at a time so that no intermediate value leaves 32 bits
RECURSIVE MulDivQR(_, _, _)
MulDivQR(a, b, c) ==
    IF b = 0 THEN <<0, 0>>
    ELSE LET h == MulDivQR(a, b \div 2, c)
             t == 2 * h[2] + (b % 2) * a
         IN  <<2 * h[1] + t \div c, t % c>>

\* floor(a * b / c) for a, b >= 0 and c > 0
MulDiv(a, b, c) == IF a >= 0 /\ b >= 0 /\ c > 0 THEN MulDivQR(a, b, c)[1] ELSE 0

\* Python's true division x / y of two numbers of the same scale, as a
\* fixed-point number (rounded toward zero at the resolution)
FixDiv(x, y) ==
    IF x >= 0 THEN MulDiv(x, Unit, y) ELSE 0 - MulDiv(0 - x, Unit, y)

\* n / d for an integer n and a divisor d of Unit: exact
IntDiv(n, d) == n * (Unit \div d)

\* an integer as a fixed-point number
ToFix(n) == n * Unit

\* f"{x:.1%}": the fixed-point ratio x in tenths of a percent, rounded to
\* nearest, ties to even
FormatPct1(x) ==
    LET a  == IF x >= 0 THEN x ELSE 0 - x
        qr == MulDivQR(a, 1000, Unit)
        up == 2 * qr[2] > Unit \/ (2 * qr[2] = Unit /\ qr[1] % 2 = 1)
        m  == IF up THEN qr[1] + 1 ELSE qr[1]
    IN  IF x >= 0 THEN m ELSE 0 - m

\* f"{x:.1f}": the fixed-point number x in tenths, rounded to nearest, ties
\* to even
FormatF1(x) ==
    LET qr == MulDivQR(x, 10, Unit)
        up == 2 * qr[2] > Unit \/ (2 * qr[2] = Unit /\ qr[1] % 2 = 1)
    IN  IF up THEN qr[1] + 1 ELSE qr[1]

(***************************************************************************)
(* loan_model.py: LoanEligibilityModel                                     *)
(***************************************************************************)

\* __init__: the thresholds of a fresh model; ratios are fixed-point, the
\* annual rate is in percent
LoanEligibilityModel ==
    [min_credit_score         |-> 620,
     max_debt_to_income       |-> 43,
     min_down_payment_ratio   |-> (20 * Unit) \div 100,
     min_employment_years     |-> 2,
     min_income_to_loan_ratio |-> (28 * Unit) \div 100,
     annual_rate              |-> 6]

required_fields ==
    {"age", "income", "employment_years", "credit_score",
     "loan_amount", "debt_to_income", "down_payment", "loan_term"}

\* a validation that lets a down payment above the loan amount through
validate_input_any_down_payment(input_data) ==
    IF ~(required_fields \subseteq DOMAIN input_data) THEN FALSE
    ELSE IF input_data.income <= 0 \/ input_data.loan_amount <= 0 THEN FALSE
    ELSE TRUE

validate_input(input_data) ==
    IF ~(required_fields \subseteq DOMAIN input_data) THEN FALSE
    ELSE IF input_data.income <= 0 \/ input_data.loan_amount <= 0 THEN FALSE
    ELSE IF input_data.down_payment > input_data.loan_amount THEN FALSE
    ELSE TRUE

\* the ramp below the minimum without its clamp
calculate_credit_score_weight_unclamped(self, credit_score) ==
    IF credit_score >= self.min_credit_score + 100 THEN Unit
    ELSE Unit \div 2 + IntDiv(credit_score - self.min_credit_score, 200)

calculate_credit_score_weight(self, credit_score) ==
    IF credit_score >= self.min_credit_score + 100 THEN Unit
    ELSE IF credit_score >= self.min_credit_score
         THEN Unit \div 2 + IntDiv(credit_score - self.min_credit_score, 200)
         ELSE Max(0, Unit \div 2 + IntDiv(credit_score - self.min_credit_score, 200))

calculate_dti_weight(self, dti) ==
    IF dti <= self.max_debt_to_income - 10 THEN Unit
    ELSE IF dti <= self.max_debt_to_income
         THEN Unit \div 2 + IntDiv(self.max_debt_to_income - dti, 20)
         ELSE Max(0, Unit \div 2 + IntDiv(self.max_debt_to_income - dti, 20))

\* the ratio and the result are fixed-point; x / 0.2 is x * 5
calculate_down_payment_weight(self, down_payment_ratio) ==
    IF down_payment_ratio >= self.min_down_payment_ratio + Unit \div 10 THEN Unit
    ELSE IF down_payment_ratio >= self.min_down_payment_ratio
         THEN Unit \div 2 + (down_payment_ratio - self.min_down_payment_ratio) * 5
         ELSE Max(0, Unit \div 2 + (down_payment_ratio - self.min_down_payment_ratio) * 5)

\* the ramp written as the debt-to-income one is, falling as the years grow
calculate_employment_weight_falling_ramp(self, employment_years) ==
    IF employment_years >= self.min_employment_years + 3 THEN Unit
    ELSE IF employment_years >= self.min_employment_years
         THEN Unit \div 2 + IntDiv(self.min_employment_years - employment_years, 6)
         ELSE Max(0, Unit \div 2 + IntDiv(employment_years - self.min_employment_years, 6))

\* no credit at all below the minimum
calculate_employment_weight_cutoff(self, employment_years) ==
    IF employment_years >= self.min_employment_years + 3 THEN Unit
    ELSE IF employment_years >= self.min_employment_years
         THEN Unit \div 2 + IntDiv(employment_years - self.min_employment_years, 6)
         ELSE 0

calculate_employment_weight(self, employment_years) ==
    IF employment_years >= self.min_employment_years + 3 THEN Unit
    ELSE IF employment_years >= self.min_employment_years
         THEN Unit \div 2 + IntDiv(employment_years - self.min_employment_years, 6)
         ELSE Max(0, Unit \div 2 + IntDiv(employment_years - self.min_employment_years, 6))

\* the ratio and the result are fixed-point; x / 0.1 is x * 10
calculate_income_weight(self, income_to_loan_ratio) ==
    IF income_to_loan_ratio <= self.min_income_to_loan_ratio - (5 * Unit) \div 100 THEN Unit
    ELSE IF income_to_loan_ratio <= self.min_income_to_loan_ratio
         THEN Unit \div 2 + (self.min_income_to_loan_ratio - income_to_loan_ratio) * 10
         ELSE Max(0, Unit \div 2 + (self.min_income_to_loan_ratio - income_to_loan_ratio) * 10)

\* base ** n at resolution PowUnit, by repeated squaring
RECURSIVE Power(_, _)
Power(base, n) ==
    IF n = 0 THEN PowUnit
    ELSE LET h  == Power(base, n \div 2)
             sq == MulDiv(h, h, PowUnit)
         IN  IF n % 2 = 1 THEN MulDiv(sq, base, PowUnit) ELSE sq

\* the default rate taken for every falsy annual_rate ("annual_rate or
\* self.annual_rate"), an explicit 0 included
calculate_monthly_payment_falsy_rate(self, principal, years, annual_rate) ==
    LET rate == IF annual_rate = <<>> \/ annual_rate = <<0>>
                THEN self.annual_rate ELSE annual_rate[1]
    IN  IF principal <= 0 \/ years <= 0 THEN 0
        ELSE LET num_payments == years * 12
             IN  IF rate = 0 THEN FixDiv(principal, num_payments)
                 ELSE LET monthly_rate == (rate * PowUnit) \div 1200
                          pow == Power(PowUnit + monthly_rate, num_payments)
                      IN  MulDiv(pow, principal * rate * (Unit \div 1200), pow - PowUnit)

\* annual_rate is <<>> for None and <<r>> for an explicit rate of r percent;
\* the result is a fixed-point amount
calculate_monthly_payment(self, principal, years, annual_rate) ==
    LET rate == IF annual_rate = <<>> THEN self.annual_rate ELSE annual_rate[1]
    IN  IF principal <= 0 \/ years <= 0 THEN 0
        ELSE LET num_payments == years * 12
             IN  IF rate = 0 THEN FixDiv(principal, num_payments)
                 ELSE LET monthly_rate == (rate * PowUnit) \div 1200
                          pow == Power(PowUnit + monthly_rate, num_payments)
                      IN  MulDiv(pow, principal * rate * (Unit \div 1200), pow - PowUnit)

\* an explicit rate kept on the instance for the calls that follow
calculate_monthly_payment_self_keeps_rate(self, principal, years, annual_rate) ==
    IF annual_rate = <<>> THEN self ELSE [self EXCEPT !.annual_rate = annual_rate[1]]

\* the instance after _calculate_monthly_payment returned: the default rate is
\* read into the local annual_rate and no attribute of self is assigned
calculate_monthly_payment_self(self, principal, years, annual_rate) == self

\* w * c for a fixed-point w and the criterion's share c, held in percent
Share(w, c) == (w * c) \div 100

\* one finding: which message, and the two numbers it prints
Reason(msg, value, limit) == [msg |-> msg, value |-> value, limit |-> limit]

InvalidInputReason == Reason("Invalid input data. Please check your inputs.", 0, 0)

SuccessReason == Reason("All criteria have been met successfully!", 0, 0)

\* the five criteria in the order predict evaluates them
Criteria ==
    <<"credit_score", "debt_to_income", "down_payment", "employment_years", "income_to_loan">>

\* the shares of down payment and employment exchanged
FixedWeightsSwapped ==
    [credit_score |-> 25, debt_to_income |-> 25, down_payment |-> 15,
     employment_years |-> 20, income_to_loan |-> 15]

\* predict's weights dict: each criterion's share of the score, in percent
FixedWeights ==
    [credit_score |-> 25, debt_to_income |-> 25, down_payment |-> 20,
     employment_years |-> 15, income_to_loan |-> 15]

\* a finding only for a criterion that scores under half
UnderscoredBelowHalf(weight) == weight < Unit \div 2

\* "if <criterion>_weight < 1": the criterion gets a finding
Underscored(weight) == weight < Unit

\* the pass bar as a strict comparison
EligibilityStrict(score) == score > (7 * Unit) \div 10

\* eligibility = score >= 0.7
Eligibility(score) == score >= (7 * Unit) \div 10

\* probability = score * 100
Probability(score) == score * 100

\* predict at its return: the returned triple and the locals it computed on
\* the way (weights in evaluation order; monthly_payment as a one-element
\* sequence, empty when it was never computed)
predict_frame(self, input_data) ==
    IF ~validate_input(input_data)
    THEN [eligibility |-> FALSE, probability |-> 0,
          reasons |-> <<InvalidInputReason>>,
          weights |-> <<>>, monthly_payment |-> <<>>]
    ELSE
    LET weights == FixedWeights
        credit_score_weight ==
            calculate_credit_score_weight(self, input_data.credit_score)
        r1 == IF Underscored(credit_score_weight)
              THEN <<Reason("credit_score", input_data.credit_score, self.min_credit_score)>>
              ELSE <<>>
        dti_weight == calculate_dti_weight(self, input_data.debt_to_income)
        r2 == IF Underscored(dti_weight)
              THEN <<Reason("debt_to_income", input_data.debt_to_income, self.max_debt_to_income)>>
              ELSE <<>>
        down_payment_ratio == FixDiv(input_data.down_payment, input_data.loan_amount)
        down_payment_weight == calculate_down_payment_weight(self, down_payment_ratio)
        r3 == IF Underscored(down_payment_weight)
              THEN <<Reason("down_payment", FormatPct1(down_payment_ratio),
                            FormatPct1(self.min_down_payment_ratio))>>
              ELSE <<>>
        employment_weight ==
            calculate_employment_weight(self, input_data.employment_years)
        r4 == IF Underscored(employment_weight)
              THEN <<Reason("employment_years", input_data.employment_years,
                            self.min_employment_years)>>
              ELSE <<>>
        monthly_income == FixDiv(input_data.income, 12)
        monthly_payment ==
            calculate_monthly_payment(self, input_data.loan_amount - input_data.down_payment,
                                      input_data.loan_term, <<>>)
        income_to_loan_ratio == FixDiv(monthly_payment, monthly_income)
        income_weight == calculate_income_weight(self, income_to_loan_ratio)
        r5 == IF Underscored(income_weight)
              THEN <<Reason("income_to_loan", FormatPct1(income_to_loan_ratio),
                            FormatPct1(self.min_income_to_loan_ratio))>>
              ELSE <<>>
        score == Share(credit_score_weight, weights.credit_score)
                 + Share(dti_weight, weights.debt_to_income)
                 + Share(down_payment_weight, weights.down_payment)
                 + Share(employment_weight, weights.employment_years)
                 + Share(income_weight, weights.income_to_loan)
        eligibility == Eligibility(score)
        probability == Probability(score)
        reasons == r1 \o r2 \o r3 \o r4 \o r5
    IN  [eligibility |-> eligibility, probability |-> probability,
         reasons |-> IF eligibility /\ reasons = <<>> THEN <<SuccessReason>> ELSE reasons,
         weights |-> <<credit_score_weight, dti_weight, down_payment_weight,
                       employment_weight, income_weight>>,
         monthly_payment |-> <<monthly_payment>>]

\* the triple a frame returns: (eligibility, probability, reasons)
Returned(f) == <<f.eligibility, f.probability, f.reasons>>

\* what predict returns
predict(self, input_data) == Returned(predict_frame(self, input_data))

\* the instance after predict returned: predict and _validate_input assign to
\* no attribute of self, and the weight functions only read the thresholds;
\* past validation the payment is computed, at the default rate
predict_self(self, input_data) ==
    IF ~validate_input(input_data) THEN self
    ELSE calculate_monthly_payment_self(self,
                                        input_data.loan_amount - input_data.down_payment,
                                        input_data.loan_term, <<>>)

\* the caller's record after predict returned: predict and _validate_input
\* subscript it and test membership, and store nothing in it
predict_input_data(self, input_data) == input_data

(***************************************************************************)
(* gemini_service.py: GeminiService                                        *)
(***************************************************************************)

\* what the HTTP exchange of one request can come to
ApiReplies ==
    {"connection_error", "http_error", "invalid_json", "no_candidates",
     "malformed_candidate", "text", "empty_text"}

\* _make_api_request: either the {'text': ...} it returns or the exception
\* that leaves it (request errors are logged and raised again, the others
\* are not caught here)
make_api_request(reply) ==
    CASE reply = "text"       -> [raised |-> FALSE, text |-> "generated text"]
      [] reply = "empty_text" -> [raised |-> FALSE, text |-> ""]
      [] reply = "no_candidates" ->
             [raised |-> TRUE, text |-> "No valid response in API result"]
      [] OTHER                -> [raised |-> TRUE, text |-> reply]

\* a failed request logged and answered with an empty string
get_loan_advice_silent(reply) ==
    LET response == make_api_request(reply)
    IN  IF response.raised
        THEN [raised |-> FALSE, value |-> <<"", "">>]
        ELSE [raised |-> FALSE, value |-> <<"", response.text>>]

\* get_loan_advice: how the call ends.  Every exception of the request is
\* caught and returned as an error string, so it never raises; the string
\* is <<prefix, text>>
get_loan_advice(reply) ==
    LET response == make_api_request(reply)
    IN  IF response.raised
        THEN [raised |-> FALSE, value |-> <<"Error getting AI advice: ", response.text>>]
        ELSE [raised |-> FALSE, value |-> <<"", response.text>>]

\* get_financial_education: likewise
get_financial_education(reply) ==
    LET response == make_api_request(reply)
    IN  IF response.raised
        THEN [raised |-> FALSE,
              value |-> <<"Error getting educational content: ", response.text>>]
        ELSE [raised |-> FALSE, value |-> <<"", response.text>>]

(***************************************************************************)
(* app.py                                                                  *)
(***************************************************************************)

\* errors.append(msg) when cond
ErrorIf(cond, msg) == IF cond THEN <<msg>> ELSE <<>>

\* the checks without the one on a down payment above the loan amount
validate_inputs_any_down_payment(age, income, employment_years, credit_score, loan_amount, debt_to_income, down_payment, loan_term) ==
    ErrorIf(age < 18, "Age must be at least 18 years")
    \o ErrorIf(income <= 0, "Annual income must be greater than 0")
    \o ErrorIf(employment_years < 0, "Employment years cannot be negative")
    \o ErrorIf(credit_score < 300 \/ credit_score > 850,
               "Credit score must be between 300 and 850")
    \o ErrorIf(loan_amount <= 0, "Loan amount must be greater than 0")
    \o ErrorIf(debt_to_income < 0 \/ debt_to_income > 100,
               "Debt-to-income ratio must be between 0 and 100")
    \o ErrorIf(down_payment < 0, "Down payment cannot be negative")
    \o ErrorIf(loan_term \notin {15, 20, 30}, "Loan term must be 15, 20, or 30 years")

validate_inputs(age, income, employment_years, credit_score, loan_amount, debt_to_income, down_payment, loan_term) ==
    ErrorIf(age < 18, "Age must be at least 18 years")
    \o ErrorIf(income <= 0, "Annual income must be greater than 0")
    \o ErrorIf(employment_years < 0, "Employment years cannot be negative")
    \o ErrorIf(credit_score < 300 \/ credit_score > 850,
               "Credit score must be between 300 and 850")
    \o ErrorIf(loan_amount <= 0, "Loan amount must be greater than 0")
    \o ErrorIf(debt_to_income < 0 \/ debt_to_income > 100,
               "Debt-to-income ratio must be between 0 and 100")
    \o ErrorIf(down_payment < 0, "Down payment cannot be negative")
    \o ErrorIf(down_payment > loan_amount,
               "Down payment cannot be greater than loan amount")
    \o ErrorIf(loan_term \notin {15, 20, 30}, "Loan term must be 15, 20, or 30 years")

\* one element the page shows: the Streamlit call, what it is, and its data
Shown(widget, what, data) == [widget |-> widget, what |-> what, data |-> data]

Rule == Shown("write", "---", <<>>)

\* f"{x:,.2f}" of an amount in lakhs: the amount in paise (hundredths of a
\* rupee), rounded to nearest, ties to even
FormatRupees2(x) ==
    LET qr == MulDivQR(x, 10 ^ 7, Unit)
        up == 2 * qr[2] > Unit \/ (2 * qr[2] = Unit /\ qr[1] % 2 = 1)
    IN  IF up THEN qr[1] + 1 ELSE qr[1]

\* the details computed on the whole loan amount
main_monthly_payment_on_loan(self, loan_amount, down_payment, loan_term) ==
    calculate_monthly_payment(self, loan_amount, loan_term, <<>>)

\* main, lines 184-187: the payment main computes for the details
main_monthly_payment(self, loan_amount, down_payment, loan_term) ==
    calculate_monthly_payment(self, loan_amount - down_payment, loan_term, <<>>)

\* main, lines 147-151: the rejected form
ShowErrors(errs) ==
    <<Shown("error", "Please correct the following errors:", <<>>)>>
    \o [i \in 1..Len(errs) |-> Shown("write", "error", errs[i])]

\* main, lines 169-181: the decision, its confidence and the findings
ShowResults(eligibility, probability, reasons) ==
    <<Rule, Shown("subheader", "Results", <<>>),
      IF eligibility
      THEN Shown("success", "eligible", FormatF1(probability))
      ELSE Shown("error", "not eligible", FormatF1(probability)),
      Rule, Shown("subheader", "Analysis", <<>>)>>
    \o [i \in 1..Len(reasons) |-> Shown("write", "reason", reasons[i])]

\* main, lines 189-193: the payment details
ShowPayment(self, principal, monthly_payment) ==
    <<Rule, Shown("subheader", "Monthly Payment Details", <<>>),
      Shown("write", "Principal", FormatRupees2(ToFix(principal))),
      Shown("write", "Monthly Payment", FormatRupees2(monthly_payment)),
      Shown("write", "Annual Interest Rate", self.annual_rate * 10)>>

\* main, lines 197-198: the heading written before the advice is requested
ShowAdviceHeading == <<Rule, Shown("subheader", "AI-Powered Financial Advice", <<>>)>>

\* main, lines 200-205: the advice string is rendered as it came back; an
\* exception of the call is caught and reported
ShowAdvice(outcome) ==
    IF outcome.raised
    THEN <<Shown("error", "Failed to get AI advice. Please try again later.", <<>>)>>
    ELSE <<Shown("markdown", "advice", outcome.value)>>

\* main, lines 227-232: the same for the educational content
ShowEducation(outcome) ==
    IF outcome.raised
    THEN <<Shown("error", "Failed to get educational content. Please try again later.",
                 <<>>)>>
    ELSE <<Shown("markdown", "education", outcome.value)>>

\* main, lines 107-122: the notice shown when the advice service is not set up
ShowUnavailable(available) ==
    IF available THEN <<>>
    ELSE <<Shown("warning", "AI-powered advice is currently unavailable", <<>>)>>

\* initialize_gemini: GeminiService() raises without an API key, and when the
\* connection test's request raises; init is "no_key" or the test's reply
initialize_gemini(init) ==
    IF init = "no_key" THEN FALSE ELSE ~make_api_request(init).raised

(***************************************************************************)
(* The values the model draws its inputs from                              *)
(***************************************************************************)

\* largest annual income and loan amount tried, in lakhs
MaxIncome == 600

MaxLoan == 400

\* the engine takes any record: values at, between and beyond every threshold
EngineInputs ==
    [age : {30}, income : {0, 1, 5, MaxIncome}, employment_years : {0, 2, 4, 5, 50},
     credit_score : {300, 620, 700, 720, 850}, loan_amount : {0, 20, MaxLoan},
     debt_to_income : {0, 33, 40, 100}, down_payment : {0, 4, 6, 20, 21},
     loan_term : {15, 30}]

\* records that lose one field
PartialInputs ==
    [age : {30}, income : {0, 5}, employment_years : {5}, credit_score : {700},
     loan_amount : {0, 20}, debt_to_income : {33}, down_payment : {4, 21},
     loan_term : {30}]

\* what the form's widgets let through (main, lines 128-137): age 18..100,
\* income, loan amount and down payment >= 0, employment 0..50, credit score
\* 300..850, debt-to-income 0..100, term one of 15, 20, 30
FormInputs ==
    [age : {18, 100}, income : {0, 5}, employment_years : {0, 5},
     credit_score : {300, 700, 850}, loan_amount : {0, 20},
     debt_to_income : {0, 40}, down_payment : {0, 4, 21}, loan_term : {15, 20, 30}]

\* validate_inputs called on its own takes any eight numbers
ValidateArgs ==
    [age : {17, 18}, income : {0, 5}, employment_years : {-1, 0},
     credit_score : {299, 300, 850, 851}, loan_amount : {0, 20},
     debt_to_income : {-1, 0, 100, 101}, down_payment : {-1, 0, 21},
     loan_term : {10, 15, 20, 30}]

\* the record whose result the caller keeps to compare a later call with: the
\* engine scores it, and its payment ratio lies past the full-credit range,
\* so the score depends on the rate the payment is computed at
RepeatedInputs ==
    {[age |-> 30, income |-> 5, employment_years |-> 4, credit_score |-> 700,
      loan_amount |-> 20, debt_to_income |-> 40, down_payment |-> 4, loan_term |-> 15]}

WeightFunctions ==
    {"_calculate_credit_score_weight", "_calculate_dti_weight",
     "_calculate_down_payment_weight", "_calculate_employment_weight",
     "_calculate_income_weight"}

\* arguments of a weight function called on its own: integers for the three
\* that take an input field, fixed-point ratios (in hundredths) for the two
\* that take a ratio
WeightArgs(fn) ==
    IF fn \in {"_calculate_down_payment_weight", "_calculate_income_weight"}
    THEN {IntDiv(k, 100) : k \in {-500, -100, -1, 0, 9, 10, 11, 19, 20, 22, 23, 24,
                                  27, 28, 29, 30, 32, 33, 34, 100, 150, 500}}
    ELSE {-1000, -100, -2, -1, 0, 1, 2, 4, 5, 6, 32, 33, 34, 42, 43, 44, 52, 53, 54,
          100, 101, 299, 300, 519, 520, 521, 619, 620, 621, 719, 720, 721, 850, 851, 1000}

PaymentArgs ==
    [principal : {-5, 0, 1, 16, 100}, years : {-1, 0, 1, 15, 20, 30},
     annual_rate : {<<>>, <<0>>, <<6>>, <<12>>}]

EducationTopics ==
    {"Understanding Credit Scores", "Debt-to-Income Ratio", "Down Payment Strategies",
     "Loan Terms and Interest Rates", "Financial Planning"}

(***************************************************************************)
(* State                                                                   *)
(***************************************************************************)
VARIABLES
    pc,               \* where the program is: "idle" between calls and runs
    model,            \* the LoanEligibilityModel instance: its thresholds
    form,             \* the arguments of the current call or run
    input_data,       \* the attributes record handed to predict
    result,           \* what predict returned: <<eligibility, probability, reasons>>
    frame,            \* predict's locals at its return
    monthly_payment,  \* main's local monthly_payment, as a one-element sequence
    errors,           \* what validate_inputs returned
    display,          \* the elements the page shows, in order
    gemini_available, \* what initialize_gemini returned
    api_reply,        \* how the advice request's HTTP exchange went
    calls,            \* how often each operation was entered in this call or run
    ret,              \* the value a helper called on its own returned
    earlier           \* the last call of predict on a record of RepeatedInputs
                      \* that has returned: the record and the result, as the
                      \* caller holds them (empty before the first)

vars ==
    <<pc, model, form, input_data, result, frame, monthly_payment, errors, display,
      gemini_available, api_reply, calls, ret, earlier>>

NoCalls ==
    [predict |-> 0, weight |-> 0, monthly_payment |-> 0, get_loan_advice |-> 0,
     api_request |-> 0]

Init ==
    /\ pc = "idle"
    /\ model = LoanEligibilityModel
    /\ form = <<>>
    /\ input_data = <<>>
    /\ result = <<>>
    /\ frame = <<>>
    /\ monthly_payment = <<>>
    /\ errors = <<>>
    /\ display = <<>>
    /\ gemini_available = FALSE
    /\ api_reply = "none"
    /\ calls = NoCalls
    /\ ret = <<>>
    /\ earlier = <<>>

(***************************************************************************)
(* Operations                                                              *)
(***************************************************************************)

\* the weight function of that name, applied
ApplyWeight(self, fn, x) ==
    CASE fn = "_calculate_credit_score_weight" -> calculate_credit_score_weight(self, x)
      [] fn = "_calculate_dti_weight"          -> calculate_dti_weight(self, x)
      [] fn = "_calculate_down_payment_weight" -> calculate_down_payment_weight(self, x)
      [] fn = "_calculate_employment_weight"   -> calculate_employment_weight(self, x)
      [] fn = "_calculate_income_weight"       -> calculate_income_weight(self, x)

\* model.predict(d), called on its own
Predict(d) ==
    /\ pc' = "predicted"
    /\ form' = d
    /\ input_data' = predict_input_data(model, d)
    /\ model' = predict_self(model, d)
    /\ frame' = predict_frame(model, d)
    /\ result' = Returned(frame')
    /\ calls' = [NoCalls EXCEPT !.predict = 1,
                                !.weight = Len(frame'.weights),
                                !.monthly_payment = Len(frame'.monthly_payment)]
    /\ UNCHANGED <<monthly_payment, errors, display, gemini_available, api_reply,
                   ret, earlier>>

PredictComplete ==
    /\ pc = "idle"
    /\ \E d \in EngineInputs : Predict(d)

PredictPartial ==
    /\ pc = "idle"
    /\ \E d \in PartialInputs : \E f \in required_fields :
           Predict([g \in required_fields \ {f} |-> d[g]])

\* model._calculate_monthly_payment(principal, years[, annual_rate]), called on
\* its own
MonthlyPaymentCall ==
    /\ pc = "idle"
    /\ \E a \in PaymentArgs :
           /\ pc' = "returned"
           /\ form' = a
           /\ ret' = [fn |-> "_calculate_monthly_payment",
                      value |-> calculate_monthly_payment(model, a.principal, a.years,
                                                          a.annual_rate)]
           /\ model' = calculate_monthly_payment_self(model, a.principal, a.years,
                                                      a.annual_rate)
           /\ calls' = [NoCalls EXCEPT !.monthly_payment = 1]
           /\ UNCHANGED <<input_data, result, frame, monthly_payment, errors, display,
                          gemini_available, api_reply, earlier>>

\* one of the five weight functions, called on its own
WeightCall ==
    /\ pc = "idle"
    /\ \E fn \in WeightFunctions : \E x \in WeightArgs(fn) :
           /\ pc' = "returned"
           /\ form' = <<x>>
           /\ ret' = [fn |-> fn, value |-> ApplyWeight(model, fn, x)]
           /\ calls' = [NoCalls EXCEPT !.weight = 1]
           /\ UNCHANGED <<model, input_data, result, frame, monthly_payment, errors,
                          display, gemini_available, api_reply, earlier>>

\* validate_inputs(...), called on its own
ValidateInputsCall ==
    /\ pc = "idle"
    /\ \E a \in ValidateArgs :
           /\ pc' = "validated"
           /\ form' = a
           /\ errors' = validate_inputs(a.age, a.income, a.employment_years, a.credit_score,
                                        a.loan_amount, a.debt_to_income, a.down_payment,
                                        a.loan_term)
           /\ UNCHANGED <<model, input_data, result, frame, monthly_payment, display,
                          gemini_available, api_reply, calls, ret, earlier>>

\* main with "Check Eligibility" pressed, up to the point where it waits for
\* the advice service (or to its end when it does not ask).  Values that
\* passed validate_inputs have income > 0 and loan_amount > 0, so predict
\* divides by nothing that is zero and the handler at lines 207-210 is not
\* entered.
CheckEligibility ==
    /\ pc = "idle"
    /\ \E w \in FormInputs : \E init \in {"no_key"} \cup ApiReplies :
           LET available == initialize_gemini(init)
               errs == validate_inputs(w.age, w.income, w.employment_years, w.credit_score,
                                       w.loan_amount, w.debt_to_income, w.down_payment,
                                       w.loan_term)
               tested == IF init = "no_key" THEN 0 ELSE 1
           IN  /\ form' = w
               /\ gemini_available' = available
               /\ errors' = errs
               /\ IF errs # <<>>
                  THEN /\ pc' = "rejected"
                       /\ display' = ShowUnavailable(available) \o ShowErrors(errs)
                       /\ calls' = [NoCalls EXCEPT !.api_request = tested]
                       /\ UNCHANGED <<model, input_data, result, frame, monthly_payment>>
                  ELSE /\ pc' = IF available THEN "advice" ELSE "done"
                       /\ input_data' = predict_input_data(model, w)
                       /\ model' = calculate_monthly_payment_self(
                                       predict_self(model, w),
                                       w.loan_amount - w.down_payment, w.loan_term, <<>>)
                       /\ frame' = predict_frame(model, w)
                       /\ result' = Returned(frame')
                       /\ monthly_payment' =
                              <<main_monthly_payment(model, w.loan_amount, w.down_payment,
                                                     w.loan_term)>>
                       /\ display' = ShowUnavailable(available)
                                     \o ShowResults(result'[1], result'[2], result'[3])
                                     \o ShowPayment(model, w.loan_amount - w.down_payment,
                                                    monthly_payment'[1])
                                     \o (IF available THEN ShowAdviceHeading ELSE <<>>)
                       /\ calls' = [NoCalls EXCEPT !.predict = 1,
                                                   !.weight = Len(frame'.weights),
                                                   !.monthly_payment =
                                                       Len(frame'.monthly_payment) + 1,
                                                   !.api_request = tested]
               /\ UNCHANGED <<api_reply, ret, earlier>>

\* the advice service answers (or fails to): get_loan_advice returns and main
\* renders what it returned
AdviceReply ==
    /\ pc = "advice"
    /\ \E reply \in ApiReplies :
           /\ pc' = "done"
           /\ api_reply' = reply
           /\ display' = display \o ShowAdvice(get_loan_advice(reply))
           /\ calls' = [calls EXCEPT !.get_loan_advice = @ + 1, !.api_request = @ + 1]
           /\ UNCHANGED <<model, form, input_data, result, frame, monthly_payment, errors,
                          gemini_available, ret, earlier>>

\* main with "Get Information" pressed (the section exists only when the
\* service is available)
GetInformation ==
    /\ pc = "idle"
    /\ \E topic \in EducationTopics : \E reply \in ApiReplies :
           /\ pc' = "informed"
           /\ form' = <<topic>>
           /\ gemini_available' = TRUE
           /\ api_reply' = reply
           /\ display' = ShowEducation(get_financial_education(reply))
           /\ calls' = [NoCalls EXCEPT !.api_request = 2]
           /\ UNCHANGED <<model, input_data, result, frame, monthly_payment, errors, ret,
                          earlier>>

\* the call returns or the run ends; the next starts from scratch, on the
\* same model instance.  The caller of predict keeps the record it passed and
\* the triple it got when the record is one of RepeatedInputs.
Finish ==
    /\ pc \in {"predicted", "returned", "validated", "rejected", "done", "informed"}
    /\ pc' = "idle"
    /\ form' = <<>>
    /\ input_data' = <<>>
    /\ result' = <<>>
    /\ frame' = <<>>
    /\ monthly_payment' = <<>>
    /\ errors' = <<>>
    /\ display' = <<>>
    /\ gemini_available' = FALSE
    /\ api_reply' = "none"
    /\ calls' = NoCalls
    /\ ret' = <<>>
    /\ earlier' = IF pc = "predicted" /\ form \in RepeatedInputs
                  THEN <<[input_data |-> input_data, result |-> result]>>
                  ELSE earlier
    /\ UNCHANGED model

Next ==
    \/ PredictComplete
    \/ PredictPartial
    \/ MonthlyPaymentCall
    \/ WeightCall
    \/ ValidateInputsCall
    \/ CheckEligibility
    \/ AdviceReply
    \/ GetInformation
    \/ Finish

Spec == Init /\ [][Next]_vars

(***************************************************************************)
(* Properties                                                              *)
(***************************************************************************)

\* predict has returned: called on its own, or inside a run of main
HasResult == pc \in {"predicted", "advice", "done"}

\* the attributes record lacks a required field
MissingField(d) == required_fields \ DOMAIN d # {}

\* the record is one the engine rejects, stated from the claim's wording
Rejected(d) ==
    \/ MissingField(d)
    \/ d.income <= 0
    \/ d.loan_amount <= 0
    \/ d.down_payment > d.loan_amount

\* the messages of a findings list, in order
Messages(reasons) == [i \in 1..Len(reasons) |-> reasons[i].msg]

\* C1: for every attributes record that passes the engine's validation,
\* the confidence predict returns lies in [0, 100] and the eligibility flag
\* is true exactly when the confidence is at least 70.0
C1_ConfidenceRangeAndThreshold ==
    (HasResult /\ ~Rejected(input_data)) =>
        /\ 0 <= result[2] /\ result[2] <= ToFix(100)
        /\ result[1] <=> (result[2] >= ToFix(70))

\* C1: a valid record whose confidence is exactly 70.0, and eligible
C1_Witness ==
    /\ pc = "predicted"
    /\ ~Rejected(input_data)
    /\ result[2] = ToFix(70)
    /\ result[1]

\* C2: a record with a missing field, a non-positive income or loan amount,
\* or a down payment above the loan amount gets exactly (False, 0, [the
\* invalid-input message]) whatever its other fields, and no criterion
\* weight is computed
C2_InvalidInputResult ==
    (HasResult /\ Rejected(input_data)) =>
        /\ result = <<FALSE, 0, <<InvalidInputReason>>>>
        /\ frame.weights = <<>>
        /\ calls.weight = 0
        /\ calls.monthly_payment = 0

\* C2: a record that is invalid only by its down payment, rejected
C2_Witness ==
    /\ pc = "predicted"
    /\ ~MissingField(input_data)
    /\ input_data.income > 0
    /\ input_data.loan_amount > 0
    /\ input_data.down_payment > input_data.loan_amount
    /\ result = <<FALSE, 0, <<InvalidInputReason>>>>

\* the criteria whose weight in ws is below 1.0, in evaluation order
BelowFull(ws) ==
    LET F(i) == IF ws[i] < Unit THEN <<Criteria[i]>> ELSE <<>>
    IN  F(1) \o F(2) \o F(3) \o F(4) \o F(5)

\* C3: for a valid record the findings are exactly one entry per criterion
\* whose weight is below 1.0, in the order credit score, debt-to-income,
\* down payment, employment, income-to-loan; when all five weights are 1.0
\* the result is eligible with confidence 100 and the one success message
C3_FindingsMatchWeights ==
    (HasResult /\ ~Rejected(input_data)) =>
        /\ Len(frame.weights) = 5
        /\ IF BelowFull(frame.weights) = <<>>
           THEN result = <<TRUE, ToFix(100), <<SuccessReason>>>>
           ELSE Messages(result[3]) = BelowFull(frame.weights)

\* C3: credit score 850, no debt, the whole loan paid down, 50 years of
\* employment: everything at full weight
C3_Witness ==
    /\ pc = "predicted"
    /\ ~MissingField(input_data)
    /\ input_data.credit_score = 850
    /\ input_data.debt_to_income = 0
    /\ input_data.down_payment = input_data.loan_amount
    /\ input_data.employment_years = 50
    /\ frame.weights = <<Unit, Unit, Unit, Unit, Unit>>
    /\ result = <<TRUE, ToFix(100), <<SuccessReason>>>>

\* the record of the worst applicant: credit score 300, debt-to-income 100,
\* no down payment, no employment, a loan at least twenty times the income
WorstCase(d) ==
    /\ ~Rejected(d)
    /\ d.credit_score = 300
    /\ d.debt_to_income = 100
    /\ d.down_payment = 0
    /\ d.employment_years = 0
    /\ d.loan_amount >= 20 * d.income

\* C4 as stated: for the worst applicant all five weights are 0.0, so the
\* confidence is 0.0, the result is not eligible and there are five
\* findings in the fixed order
C4_AsStated ==
    (HasResult /\ WorstCase(input_data)) =>
        /\ frame.weights = <<0, 0, 0, 0, 0>>
        /\ result[2] = 0
        /\ ~result[1]
        /\ Messages(result[3]) = Criteria

\* C4 as amended: for the worst applicant the credit, debt-to-income, down
\* payment and income-to-loan weights are 0.0 and the employment weight is
\* 1/6 (0.5 + (0 - 2)/6), so the confidence is 2.5, the result is not
\* eligible and there are five findings in the fixed order
C4_WorstCaseScores ==
    (HasResult /\ WorstCase(input_data)) =>
        /\ frame.weights = <<0, 0, 0, Unit \div 6, 0>>
        /\ result[2] = IntDiv(25, 10)
        /\ ~result[1]
        /\ Messages(result[3]) = Criteria

\* C4: the worst applicant, evaluated
C4_Witness ==
    /\ pc = "predicted"
    /\ WorstCase(input_data)
    /\ input_data.loan_amount = MaxLoan
    /\ result[2] = IntDiv(25, 10)

\* the weights as the claim's piecewise rules give them
RuleCredit(d) ==
    IF d.credit_score >= 720 THEN Unit
    ELSE Max(0, Unit \div 2 + IntDiv(d.credit_score - 620, 200))

RuleDTI(d) ==
    IF d.debt_to_income <= 33 THEN Unit
    ELSE Max(0, Unit \div 2 + IntDiv(43 - d.debt_to_income, 20))

RuleDown(d) ==
    LET ratio == FixDiv(d.down_payment, d.loan_amount)
    IN  IF ratio >= IntDiv(30, 100) THEN Unit
        ELSE Max(0, Unit \div 2 + (ratio - IntDiv(20, 100)) * 5)

RuleEmployment(d) ==
    IF d.employment_years >= 5 THEN Unit
    ELSE Max(0, Unit \div 2 + IntDiv(d.employment_years - 2, 6))

RuleIncome(d) ==
    LET payment == calculate_monthly_payment(LoanEligibilityModel,
                                             d.loan_amount - d.down_payment,
                                             d.loan_term, <<6>>)
        ratio == FixDiv(payment, FixDiv(d.income, 12))
    IN  IF ratio <= IntDiv(23, 100) THEN Unit
        ELSE Max(0, Unit \div 2 + (IntDiv(28, 100) - ratio) * 10)

\* C5: for every valid record the confidence is 100 x (0.25 wCredit +
\* 0.25 wDTI + 0.20 wDown + 0.15 wEmp + 0.15 wIncome), each weight by its
\* piecewise rule and the payment taken on loanAmount - downPayment at 6%
C5_ConfidenceFormula ==
    (HasResult /\ ~Rejected(input_data)) =>
        /\ frame.weights = <<RuleCredit(input_data), RuleDTI(input_data),
                             RuleDown(input_data), RuleEmployment(input_data),
                             RuleIncome(input_data)>>
        /\ result[2] = 100 * ( Share(RuleCredit(input_data), 25)
                             + Share(RuleDTI(input_data), 25)
                             + Share(RuleDown(input_data), 20)
                             + Share(RuleEmployment(input_data), 15)
                             + Share(RuleIncome(input_data), 15) )

\* C5: a valid record with every weight strictly between 0 and 1
C5_Witness ==
    /\ pc = "predicted"
    /\ ~Rejected(input_data)
    /\ \A i \in 1..5 : 0 < frame.weights[i] /\ frame.weights[i] < Unit
    /\ result[2] > 0

\* C6: each of the five weight functions returns a value in [0, 1] for
\* every numeric argument, the ones outside the validated ranges included
C6_WeightsClamped ==
    /\ (pc = "returned" /\ ret.fn \in WeightFunctions) =>
           (0 <= ret.value /\ ret.value <= Unit)
    /\ (HasResult /\ ~Rejected(input_data)) =>
           \A i \in 1..5 : 0 <= frame.weights[i] /\ frame.weights[i] <= Unit

\* C6: a credit score below anything the form allows, clamped to weight 0
C6_Witness ==
    /\ pc = "returned"
    /\ ret.fn = "_calculate_credit_score_weight"
    /\ form[1] < 300
    /\ ret.value = 0

\* main has evaluated an application: predict returned and the details are
\* on the page
Evaluated == pc \in {"advice", "done"}

\* the page shows this element
OnPage(widget, what, data) ==
    \E i \in 1..Len(display) :
        /\ display[i].widget = widget
        /\ display[i].what = what
        /\ display[i].data = data

\* C7 as stated: the monthly payment is computed once per evaluation and
\* that one value serves both the income-to-loan criterion and the payment
\* details
C7_AsStated ==
    Evaluated =>
        /\ calls.monthly_payment = 1
        /\ monthly_payment = frame.monthly_payment

\* C7 as amended: the monthly payment is computed twice per evaluation, by
\* predict for the income-to-loan criterion and again by main for the
\* payment details, both times on loanAmount - downPayment, the term and the
\* default rate, so the payment shown equals the payment that entered the
\* score
C7_PaymentShownIsPaymentScored ==
    Evaluated =>
        /\ calls.monthly_payment = 2
        /\ monthly_payment = frame.monthly_payment
        /\ OnPage("write", "Monthly Payment", FormatRupees2(frame.monthly_payment[1]))

\* C7: an evaluated application with a payment to show
C7_Witness ==
    /\ pc = "done"
    /\ input_data.down_payment > 0
    /\ frame.monthly_payment[1] > 0
    /\ monthly_payment = frame.monthly_payment

\* the replies with which the advice request fails: no connection, an HTTP
\* error status, a body that is not JSON, no candidates, a candidate without
\* the expected parts
FailedReplies ==
    {"connection_error", "http_error", "invalid_json", "no_candidates",
     "malformed_candidate"}

\* what the page showed when main asked for advice
PageBeforeAdvice ==
    ShowResults(result[1], result[2], result[3])
    \o ShowPayment(model, input_data.loan_amount - input_data.down_payment,
                   monthly_payment[1])
    \o ShowAdviceHeading

\* C8: when the advice request fails, the failure becomes one visible
\* message at the end of the page; the decision, confidence, findings and
\* payment details shown before the request stay as they were, the run
\* ends normally and no processing-error message appears
C8_AdviceFailureKeepsResult ==
    (pc = "done" /\ api_reply \in FailedReplies) =>
        /\ Len(display) = Len(PageBeforeAdvice) + 1
        /\ SubSeq(display, 1, Len(PageBeforeAdvice)) = PageBeforeAdvice
        /\ result = predict(model, input_data)
        /\ LET last == display[Len(display)]
           IN  \/ /\ last.widget = "markdown"
                  /\ last.data[1] = "Error getting AI advice: "
               \/ /\ last.widget = "error"
                  /\ last.what = "Failed to get AI advice. Please try again later."
        /\ \A i \in 1..Len(display) :
               display[i].what # "An error occurred while processing your application"

\* C8: a run whose advice request got an HTTP error, ended with the result
\* of an eligible application still on the page
C8_Witness ==
    /\ pc = "done"
    /\ api_reply = "http_error"
    /\ result[1]
    /\ OnPage("success", "eligible", FormatF1(result[2]))
    /\ display[Len(display)].widget = "markdown"

\* the checks of the form that the values f fail, by their messages
FailedChecks(f) ==
    {m \in {"Age must be at least 18 years",
            "Annual income must be greater than 0",
            "Employment years cannot be negative",
            "Credit score must be between 300 and 850",
            "Loan amount must be greater than 0",
            "Debt-to-income ratio must be between 0 and 100",
            "Down payment cannot be negative",
            "Down payment cannot be greater than loan amount",
            "Loan term must be 15, 20, or 30 years"} :
        CASE m = "Age must be at least 18 years" -> f.age < 18
          [] m = "Annual income must be greater than 0" -> f.income <= 0
          [] m = "Employment years cannot be negative" -> f.employment_years < 0
          [] m = "Credit score must be between 300 and 850" ->
                 f.credit_score < 300 \/ f.credit_score > 850
          [] m = "Loan amount must be greater than 0" -> f.loan_amount <= 0
          [] m = "Debt-to-income ratio must be between 0 and 100" ->
                 f.debt_to_income < 0 \/ f.debt_to_income > 100
          [] m = "Down payment cannot be negative" -> f.down_payment < 0
          [] m = "Down payment cannot be greater than loan amount" ->
                 f.down_payment > f.loan_amount
          [] m = "Loan term must be 15, 20, or 30 years" ->
                 f.loan_term # 15 /\ f.loan_term # 20 /\ f.loan_term # 30}

\* errs lists each failed check of f once and nothing else
OnePerFailedCheck(errs, f) ==
    /\ Len(errs) = Cardinality(FailedChecks(f))
    /\ {errs[i] : i \in 1..Len(errs)} = FailedChecks(f)

\* C9: main calls predict only after validate_inputs returned no error;
\* when a check fails, one message per failed check is shown and neither
\* predict nor the advice call happens in that run
C9_ValidationGatesEngine ==
    /\ (pc \in {"advice", "done"}) =>
           /\ calls.predict = 1
           /\ errors = <<>>
           /\ FailedChecks(form) = {}
    /\ (pc = "rejected") =>
           /\ FailedChecks(form) # {}
           /\ OnePerFailedCheck(errors, form)
           /\ display = ShowUnavailable(gemini_available) \o ShowErrors(errors)
           /\ calls.predict = 0
           /\ calls.get_loan_advice = 0
           /\ result = <<>>
    /\ (pc = "validated") => OnePerFailedCheck(errors, form)

\* C9: a form refused for two reasons at once, the engine untouched
C9_Witness ==
    /\ pc = "rejected"
    /\ Len(errors) = 2
    /\ form.down_payment > form.loan_amount
    /\ calls.predict = 0

\* C10: the monthly payment is 0 whenever principal <= 0 or years <= 0, and
\* with an explicit annual rate of 0 (principal and years positive) it is
\* exactly principal / (years x 12), not the payment at the default 6%
C10_PaymentDegenerateCases ==
    (pc = "returned" /\ ret.fn = "_calculate_monthly_payment") =>
        /\ (form.principal <= 0 \/ form.years <= 0) => ret.value = 0
        /\ (form.principal > 0 /\ form.years > 0 /\ form.annual_rate = <<0>>) =>
               /\ ret.value * (form.years * 12) = ToFix(form.principal)
               /\ ret.value # calculate_monthly_payment(model, form.principal,
                                                        form.years, <<6>>)

\* C10: 100 lakhs over 15 years at an explicit rate of 0: 100 / 180 a month
C10_Witness ==
    /\ pc = "returned"
    /\ ret.fn = "_calculate_monthly_payment"
    /\ form.principal = 100
    /\ form.years = 15
    /\ form.annual_rate = <<0>>
    /\ ret.value * 180 = ToFix(100)

\* predict called on a record the caller already has a result for
Repeated ==
    /\ pc = "predicted"
    /\ earlier # <<>>
    /\ form = earlier[1].input_data

\* C11: predict is a pure function of its input: whatever calls of predict
\* and _calculate_monthly_payment came before on the same instance, a call
\* with the attributes of an earlier call returns the identical (eligible,
\* confidence, findings) triple, and no call changes the instance's
\* thresholds or the record the caller passed
C11_PredictIsPure ==
    /\ model = LoanEligibilityModel
    /\ HasResult => input_data = form
    /\ Repeated => result = earlier[1].result

\* C11: the scored record evaluated a second time, with the same result
C11_Witness ==
    /\ Repeated
    /\ validate_input(form)
    /\ Len(frame.monthly_payment) = 1
    /\ result = earlier[1].result
    /\ result[2] > 0

\* the values the records of EngineInputs take in one field
CreditScores == {e.credit_score : e \in EngineInputs}

EmploymentYears == {e.employment_years : e \in EngineInputs}

Incomes == {e.income : e \in EngineInputs}

DebtToIncomes == {e.debt_to_income : e \in EngineInputs}

\* the least value of S above v, and the greatest below it (none at the ends)
NextAbove(S, v) == {w \in S : w > v /\ \A u \in S : u > v => w <= u}

NextBelow(S, v) == {w \in S : w < v /\ \A u \in S : u < v => w >= u}

\* the records that differ from d in exactly one of credit score (higher),
\* employment years (higher), income (higher) or debt-to-income (lower), by
\* one step of the values tried; any two records that differ in one of these
\* attributes are joined by a chain of such steps
OneBetter(d) ==
    {[d EXCEPT !.credit_score = v] : v \in NextAbove(CreditScores, d.credit_score)}
    \cup {[d EXCEPT !.employment_years = v] :
              v \in NextAbove(EmploymentYears, d.employment_years)}
    \cup {[d EXCEPT !.income = v] : v \in NextAbove(Incomes, d.income)}
    \cup {[d EXCEPT !.debt_to_income = v] :
              v \in NextBelow(DebtToIncomes, d.debt_to_income)}

\* y is a better argument than x for that weight function: a higher score,
\* down payment ratio or number of years, a lower debt or payment ratio
BetterArg(fn, x, y) ==
    IF fn \in {"_calculate_dti_weight", "_calculate_income_weight"} THEN y < x ELSE y > x

\* C12: the score is monotone in each single attribute: for a valid record
\* and the same record with only a higher credit score, more employment
\* years, a higher income or a lower debt-to-income, the confidence of the
\* second is never lower and it is eligible whenever the first is; and no
\* weight function returns less for a better argument, at and around the
\* points where its full-credit, partial-credit and clamped branches meet
C12_ScoreMonotone ==
    /\ (pc = "predicted" /\ validate_input(form)) =>
           \A e \in OneBetter(form) : \A better \in {predict(model, e)} :
               /\ better[2] >= result[2]
               /\ result[1] => better[1]
    /\ (pc = "returned" /\ ret.fn \in WeightFunctions) =>
           \A y \in WeightArgs(ret.fn) :
               BetterArg(ret.fn, form[1], y) =>
                   ApplyWeight(model, ret.fn, y) >= ret.value

\* C12: a record refused on a credit score inside the partial-credit ramp,
\* whose twin with only a higher credit score is eligible
C12_Witness ==
    /\ pc = "predicted"
    /\ validate_input(form)
    /\ ~result[1]
    /\ form.credit_score = 620
    /\ \E e \in OneBetter(form) : \E better \in {predict(model, e)} :
           /\ better[1]
           /\ better[2] > result[2]

====
